---- MODULE Spec2Model ----
(***************************************************************************)
(* The tandem queueing network of Projects/Queue/Code/practice.py, run on  *)
(* the simpy event loop: one arrival generator (Customer.process), one     *)
(* flow per customer (Customer.process_customer), three stations (Queue),  *)
(* each with a simpy.Resource of capacity one.                             *)
(*                                                                         *)
(* Simulated time is an integer.  Every sampled duration is drawn from     *)
(* 0 .. horizon - now:         random.expovariate can return 0.0, and every *)
(* sample that lands at or after the horizon behaves alike (its event is   *)
(* never processed), so such an event is kept at the horizon.  The bound   *)
(* SimulationTime stands for Config.simulation_time.                       *)
(*                                                                         *)
(* The event queue is simpy's heap, ordered by (time, priority, event id). *)
(* It is kept as a sequence sorted by (time, priority) with stable         *)
(* insertion, which is the order the increasing event id gives.            *)
(***************************************************************************)
EXTENDS Integers, Sequences, FiniteSets

\* ---------------------------------------------------------------- bounds
SimulationTime == 3
MaxFlows == 3

\* ------------------------------------------------------- program constants
Capacity == 1
RouteThreshold == 4
URGENT == 0
NORMAL == 1

Stations == {1, 2, 3}
Flows == 1..MaxFlows
\* random.random() in tenths: both sides of the routing threshold
Draws == {0, 3, 4, 9}

VARIABLES
    now,                    \* env.now
    queue,                  \* env._queue, in processing order
    config,                 \* the Config the Simulation was built with
    phase,                  \* "constructed", "running", "halted" (run returned)
                            \* or "failed" (run raised)
    metrics,                \* what calculate_metrics returned, once it has
    second_run,             \* a second Simulation of the same process, once run
    nflows,                 \* process_customer flows spawned so far
    stage,                  \* each flow's place in process_customer
    pc,                     \* each flow's place in Queue.process
    at,                     \* the station whose Queue.process the flow runs
    service_time,           \* Queue.process's local service_time, per flow
    users,                  \* server.users, per station
    put_queue,              \* server.put_queue, per station
    num_serviced,
    num_in_queue,
    total_delay,
    times_of_arrival,
    times_of_arrival_debug,
    service_times,
    area_under_b,
    area_under_q,
    last_event_time,
    server_status,
    \* history variables: what really happened, for the claims to compare with
    arrived_at,             \* the time the flow arrived at its current station
    visited,                \* the stations the flow has arrived at, in order
    own_delay,              \* per station: sum of each granted flow's own wait
    busy_time,              \* per station: time in [0, now] the server was held
    int_q,                  \* per station: integral of num_in_queue over [0, now]
    int_b,                  \* per station: integral of server_status over [0, now]
    int_q_last,             \* int_q at the last update_stats call
    int_b_last,             \* int_b at the last update_stats call
    at_update               \* what the last update_stats call found

counters == <<num_serviced, num_in_queue, total_delay, times_of_arrival,
              times_of_arrival_debug, service_times, area_under_b,
              area_under_q, last_event_time, server_status>>
history == <<arrived_at, visited, own_delay, busy_time, int_q, int_b,
             int_q_last, int_b_last, at_update>>
runvars == <<config, metrics, second_run>>
vars == <<runvars, now, queue, phase, nflows, stage, pc, at, service_time, users,
          put_queue, counters, history>>

\* ------------------------------------------------------------ event queue
Event(t, p, k, f, s) == [time |-> t, prio |-> p, kind |-> k, flow |-> f, st |-> s]

\* heap order: an event already queued stays ahead of a new one of equal key
Before(e1, e2) ==
    \/ e1.time < e2.time
    \/ e1.time = e2.time /\ e1.prio <= e2.prio

Schedule(q, e) ==
    LET k == Cardinality({i \in 1..Len(q) : Before(q[i], e)})
    IN  SubSeq(q, 1, k) \o <<e>> \o SubSeq(q, k + 1, Len(q))

Min(a, b) == IF a <= b THEN a ELSE b

\* env.timeout(d) at time t: the time its event is processed at
TimeoutAt(t, d) == Min(t + d, config.simulation_time)

\* the value of until handed to env.run
UntilLate == config.simulation_time + 1
Until == config.simulation_time

\* Environment.run raises ValueError when until is not after the clock
RunFaults(t) == Until <= t

\* ------------------------------------------------------- simpy.Resource
\* Resource._do_put: the request is granted when a slot is free
DoPutUnchecked(us) == TRUE
DoPut(us) == Cardinality(us) < Capacity

\* Put.__init__: the request joins the put queue
EnqueueFront(pq, f) == <<f>> \o pq
Enqueue(pq, f) == Append(pq, f)

\* BaseResource._trigger_put: only the head of the put queue is tried
GrantedWhenAlone(us, pq) == Len(pq) = 1 /\ DoPut(us)
Granted(us, pq) == pq # <<>> /\ DoPut(us)

TriggerPut(s, t, us, pq, q) ==
    IF Granted(us, pq)
    THEN /\ users' = [users EXCEPT ![s] = us \cup {Head(pq)}]
         /\ put_queue' = [put_queue EXCEPT ![s] = Tail(pq)]
         /\ queue' = Schedule(q, Event(t, NORMAL, "request", Head(pq), s))
    ELSE /\ users' = [users EXCEPT ![s] = us]
         /\ put_queue' = [put_queue EXCEPT ![s] = pq]
         /\ queue' = q

\* ----------------------------------------------------- Queue.update_stats
TimeSinceLastEventBackwards(t, last) == last - t
TimeSinceLastEvent(t, last) == t - last

AreaStep(area, dt, level) == area + dt * level

\* update_stats at time t, reading server_status = status, num_in_queue = n
UpdateStats(s, t, status, n, len, call) ==
    LET dt == TimeSinceLastEvent(t, last_event_time[s])
    IN  /\ last_event_time' = [last_event_time EXCEPT ![s] = t]
        /\ area_under_b' = [area_under_b EXCEPT ![s] = AreaStep(@, dt, status)]
        /\ area_under_q' = [area_under_q EXCEPT ![s] = AreaStep(@, dt, n)]
        /\ int_q_last' = [int_q_last EXCEPT ![s] = int_q'[s]]
        /\ int_b_last' = [int_b_last EXCEPT ![s] = int_b'[s]]
        /\ at_update' = [call |-> call, n |-> n, len |-> len]

\* Queue.process calls update_stats before it counts the arrival
QueueLevelAfterCount(n) == n + 1
QueueLevelAtArrival(n) == n

\* the grant takes the customer out of the waiting count and its timestamp
\* off times_of_arrival
AdmittedKept(n) == n
Admitted(n) == n - 1

\* the grant counts the customer in num_serviced
ServicedSkipped(n) == n
Serviced(n) == n + 1

PopKept(ta) == ta
PopArrival(ta) == Tail(ta)

\* the arrival's timestamp goes on the station's own list
AppendShared(lists, s, t) == [x \in Stations |-> Append(lists[x], t)]
AppendArrival(lists, s, t) == [lists EXCEPT ![s] = Append(@, t)]

\* the end of a service: the server is marked idle when nobody waits
StatusKept(n, status) == status
StatusAfterService(n, status) == IF n = 0 THEN 0 ELSE status

\* ------------------------------------------------------------- Customer
\* the inter-arrival samples; past MaxFlows the next one is past the horizon
InterArrivals(t, n) ==
    IF n < MaxFlows THEN 0..(config.simulation_time - t)
    ELSE {config.simulation_time - t}

ServiceSamples(t) == 0..(config.simulation_time - t)

\* random.expovariate(rate) divides by the rate: ZeroDivisionError at 0
SampleFaults(rate) == rate = 0

\* process_customer routes on once, after its first station, and then returns
RoutesAgain(stg) == stg \in {1, 2}
Routes(stg) == stg = 1

NextQueueBack(draw) == IF draw < RouteThreshold THEN 2 ELSE 1
NextQueue(draw) == IF draw < RouteThreshold THEN 2 ELSE 3

\* ------------------------------------------------------------------ Init
Zero == [s \in Stations |-> 0]
Empty == [s \in Stations |-> <<>>]

\* the configurations tried: the rate and horizon of Config, and a zero of each
Configs ==
    {[inter_arrival_rate |-> r, simulation_time |-> h] :
        r \in {0, 1}, h \in {0, SimulationTime}}

ConfigValid == config.inter_arrival_rate > 0 /\ config.simulation_time > 0

\* ------------------------------------------- Simulation.calculate_metrics
\* a / b as the pair <<a, b>>; b = 0 is a ZeroDivisionError
Ratio(a, b) == <<a, b>>
ZeroValue == <<0, 1>>
IsFault(x) == x[2] = 0
IsZero(x) == x[1] = 0 /\ x[2] # 0
AddValues(x, y) == <<x[1] * y[2] + y[1] * x[2], x[2] * y[2]>>

RECURSIVE SumSeq(_)
SumSeq(q) == IF q = <<>> THEN 0 ELSE Head(q) + SumSeq(Tail(q))

WaitingTimeUnguarded(delay, n) == Ratio(delay, n)
WaitingTime(delay, n) == IF n > 0 THEN Ratio(delay, n) ELSE ZeroValue

ServiceTime(sts, n) == IF n > 0 THEN Ratio(SumSeq(sts), n) ELSE ZeroValue

CalculateMetrics(T) ==
    LET WQi == [s \in Stations |-> WaitingTime(total_delay[s], num_serviced[s])]
        Es == [s \in Stations |-> ServiceTime(service_times[s], num_serviced[s])]
        LQi == [s \in Stations |-> Ratio(area_under_q[s], T)]
        rho == [s \in Stations |-> Ratio(area_under_b[s], T)]
    IN  [WQi |-> WQi,
         Es |-> Es,
         Wi |-> [s \in Stations |-> AddValues(WQi[s], Es[s])],
         LQi |-> LQi,
         rho |-> rho,
         Li |-> [s \in Stations |-> AddValues(LQi[s], rho[s])]]

MetricsFault(m) ==
    \E s \in Stations :
        IsFault(m.WQi[s]) \/ IsFault(m.Es[s]) \/ IsFault(m.LQi[s]) \/ IsFault(m.rho[s])

\* the counters two runs are compared on, as a Simulation is constructed
FreshCounters ==
    [num_serviced |-> Zero, total_delay |-> Zero, service_times |-> Empty,
     area_under_b |-> Zero, area_under_q |-> Zero]

Init ==
    /\ config \in Configs
    /\ metrics = <<>>
    /\ second_run = <<>>
    /\ at_update = [call |-> "none", n |-> 0, len |-> 0]
    /\ now = 0
    /\ queue = <<>>
    /\ phase = "constructed"
    /\ nflows = 0
    /\ stage = [f \in Flows |-> 0]
    /\ pc = [f \in Flows |-> "none"]
    /\ at = [f \in Flows |-> 0]
    /\ service_time = [f \in Flows |-> 0]
    /\ users = [s \in Stations |-> {}]
    /\ put_queue = Empty
    /\ num_serviced = Zero
    /\ num_in_queue = Zero
    /\ total_delay = Zero
    /\ times_of_arrival = Empty
    /\ times_of_arrival_debug = Empty
    /\ service_times = Empty
    /\ area_under_b = Zero
    /\ area_under_q = Zero
    /\ last_event_time = Zero
    /\ server_status = Zero
    /\ arrived_at = [f \in Flows |-> 0]
    /\ visited = [f \in Flows |-> <<>>]
    /\ own_delay = Zero
    /\ busy_time = Zero
    /\ int_q = Zero
    /\ int_b = Zero
    /\ int_q_last = Zero
    /\ int_b_last = Zero

\* --------------------------------------------------------------- actions
flowvars == <<stage, pc, at, service_time>>
resvars == <<users, put_queue>>
flowhist == <<arrived_at, visited, own_delay>>

\* Simulation.run up to the event loop: the generator's Initialize event and
\* the until event are scheduled, in that order
Run ==
    /\ phase = "constructed"
    /\ LET q1 == Schedule(queue, Event(now, URGENT, "gen_init", 0, 0))
       IN  IF RunFaults(now)
           THEN /\ phase' = "failed"
                /\ queue' = q1
           ELSE /\ phase' = "running"
                /\ queue' = Schedule(q1, Event(Until, URGENT, "stop", 0, 0))
    /\ UNCHANGED <<runvars, now, nflows, flowvars, resvars, counters, history>>

\* Environment.step: the head event is popped and the clock set to its time
Fire(k) ==
    /\ phase = "running"
    /\ queue # <<>>
    /\ Head(queue).kind = k

Advance(t) ==
    /\ now' = t
    /\ busy_time' = [s \in Stations |->
                       busy_time[s] + (t - now) * (IF users[s] # {} THEN 1 ELSE 0)]
    /\ int_q' = [s \in Stations |-> int_q[s] + (t - now) * num_in_queue[s]]
    /\ int_b' = [s \in Stations |-> int_b[s] + (t - now) * server_status[s]]

\* Customer.process starts: the first inter-arrival time is sampled; when
\* the sampling raises, the process fails and its event is queued
GenStart ==
    /\ Fire("gen_init")
    /\ LET t == Head(queue).time
       IN  /\ Advance(t)
           /\ IF SampleFaults(config.inter_arrival_rate)
              THEN queue' = Schedule(Tail(queue), Event(t, NORMAL, "crash", 0, 0))
              ELSE \E d \in InterArrivals(t, nflows) :
                      queue' = Schedule(Tail(queue),
                                        Event(TimeoutAt(t, d), NORMAL, "gen_timeout", 0, 0))
    /\ UNCHANGED <<phase, nflows, flowvars, resvars, counters, flowhist,
                   int_q_last, int_b_last, at_update, runvars>>

\* Customer.process resumes: a flow is spawned, the next inter-arrival sampled
GenArrival ==
    /\ Fire("gen_timeout")
    /\ nflows < MaxFlows
    /\ LET t == Head(queue).time
           f == nflows + 1
           q1 == Schedule(Tail(queue), Event(t, URGENT, "cust_init", f, 0))
       IN  /\ Advance(t)
           /\ nflows' = f
           /\ \E d \in InterArrivals(t, f) :
                 queue' = Schedule(q1, Event(TimeoutAt(t, d), NORMAL, "gen_timeout", 0, 0))
    /\ UNCHANGED <<phase, flowvars, resvars, counters, flowhist,
                   int_q_last, int_b_last, at_update, runvars>>

\* process_customer starts: Station 1's Queue.process is spawned and awaited
CustomerStart ==
    /\ Fire("cust_init")
    /\ LET t == Head(queue).time
           f == Head(queue).flow
       IN  /\ Advance(t)
           /\ stage' = [stage EXCEPT ![f] = 1]
           /\ at' = [at EXCEPT ![f] = 1]
           /\ pc' = [pc EXCEPT ![f] = "arriving"]
           /\ queue' = Schedule(Tail(queue), Event(t, URGENT, "queue_init", f, 1))
    /\ UNCHANGED <<phase, nflows, service_time, resvars, counters, flowhist,
                   int_q_last, int_b_last, at_update, runvars>>

\* Queue.process up to "yield request"
QueueArrive ==
    /\ Fire("queue_init")
    /\ LET t == Head(queue).time
           f == Head(queue).flow
           s == Head(queue).st
       IN  /\ Advance(t)
           /\ times_of_arrival' = AppendArrival(times_of_arrival, s, t)
           /\ times_of_arrival_debug' = AppendArrival(times_of_arrival_debug, s, t)
           /\ UpdateStats(s, t, server_status[s], QueueLevelAtArrival(num_in_queue[s]),
                          Len(times_of_arrival'[s]), "arrival")
           /\ num_in_queue' = [num_in_queue EXCEPT ![s] = @ + 1]
           /\ TriggerPut(s, t, users[s], Enqueue(put_queue[s], f), Tail(queue))
           /\ pc' = [pc EXCEPT ![f] = "request"]
           /\ arrived_at' = [arrived_at EXCEPT ![f] = t]
           /\ visited' = [visited EXCEPT ![f] = Append(@, s)]
    /\ UNCHANGED <<phase, nflows, stage, at, service_time, num_serviced,
                   total_delay, service_times, server_status, own_delay, runvars>>

\* Queue.process from the grant to "yield self.env.timeout(service_time)"
Grant ==
    /\ Fire("request")
    /\ LET t == Head(queue).time
           f == Head(queue).flow
           s == Head(queue).st
       IN  /\ Advance(t)
           /\ server_status' = [server_status EXCEPT ![s] = 1]
           /\ total_delay' = [total_delay EXCEPT ![s] = @ + t - Head(times_of_arrival[s])]
           /\ times_of_arrival' = [times_of_arrival EXCEPT ![s] = PopArrival(@)]
           /\ num_in_queue' = [num_in_queue EXCEPT ![s] = Admitted(@)]
           /\ num_serviced' = [num_serviced EXCEPT ![s] = Serviced(@)]
           /\ UpdateStats(s, t, 1, num_in_queue'[s], Len(times_of_arrival'[s]), "grant")
           /\ \E d \in ServiceSamples(t) :
                 /\ service_time' = [service_time EXCEPT ![f] = d]
                 /\ queue' = Schedule(Tail(queue),
                                      Event(TimeoutAt(t, d), NORMAL, "svc_timeout", f, s))
           /\ pc' = [pc EXCEPT ![f] = "service"]
           /\ own_delay' = [own_delay EXCEPT ![s] = @ + t - arrived_at[f]]
    /\ UNCHANGED <<phase, nflows, stage, at, resvars, times_of_arrival_debug,
                   service_times, arrived_at, visited, runvars>>

\* Queue.process from the end of the service to its return: the with block
\* releases the server (Release._do_get runs at once) and the process ends
Complete ==
    /\ Fire("svc_timeout")
    /\ LET t == Head(queue).time
           f == Head(queue).flow
           s == Head(queue).st
       IN  /\ Advance(t)
           /\ service_times' = [service_times EXCEPT ![s] = Append(@, service_time[f])]
           /\ UpdateStats(s, t, server_status[s], num_in_queue[s],
                          Len(times_of_arrival[s]), "completion")
           /\ server_status' = [server_status EXCEPT
                                  ![s] = StatusAfterService(num_in_queue[s], @)]
           /\ users' = [users EXCEPT ![s] = @ \ {f}]
           /\ queue' = Schedule(Schedule(Tail(queue), Event(t, NORMAL, "release", 0, s)),
                                Event(t, NORMAL, "queue_done", f, s))
           /\ pc' = [pc EXCEPT ![f] = "returned"]
    /\ UNCHANGED <<phase, nflows, stage, at, service_time, put_queue, num_serviced,
                   num_in_queue, total_delay, times_of_arrival,
                   times_of_arrival_debug, flowhist, runvars>>

\* the Release event's callback: the next waiting request is tried
ReleaseDone ==
    /\ Fire("release")
    /\ LET t == Head(queue).time
           s == Head(queue).st
       IN  /\ Advance(t)
           /\ TriggerPut(s, t, users[s], put_queue[s], Tail(queue))
    /\ UNCHANGED <<phase, nflows, flowvars, counters, flowhist,
                   int_q_last, int_b_last, at_update, runvars>>

\* process_customer resumes after Station 1: the routing draw, then the
\* chosen station's Queue.process is spawned and awaited
Route ==
    /\ Fire("queue_done")
    /\ Routes(stage[Head(queue).flow])
    /\ LET t == Head(queue).time
           f == Head(queue).flow
       IN  /\ Advance(t)
           /\ \E draw \in Draws :
                 /\ at' = [at EXCEPT ![f] = NextQueue(draw)]
                 /\ queue' = Schedule(Tail(queue),
                                      Event(t, URGENT, "queue_init", f, NextQueue(draw)))
           /\ stage' = [stage EXCEPT ![f] = 2]
           /\ pc' = [pc EXCEPT ![f] = "arriving"]
    /\ UNCHANGED <<phase, nflows, service_time, resvars, counters, flowhist,
                   int_q_last, int_b_last, at_update, runvars>>

\* process_customer resumes after its second station and returns (its own
\* Process event has no callback and is left out of the queue)
CustomerEnd ==
    /\ Fire("queue_done")
    /\ ~Routes(stage[Head(queue).flow])
    /\ LET t == Head(queue).time
           f == Head(queue).flow
       IN  /\ Advance(t)
           /\ stage' = [stage EXCEPT ![f] = 3]
           /\ at' = [at EXCEPT ![f] = 0]
           /\ pc' = [pc EXCEPT ![f] = "none"]
           /\ queue' = Tail(queue)
    /\ UNCHANGED <<phase, nflows, service_time, resvars, counters, flowhist,
                   int_q_last, int_b_last, at_update, runvars>>

\* the until event: env.run returns, everything still queued is abandoned,
\* and Simulation.run goes on to calculate_metrics
Halt ==
    /\ Fire("stop")
    /\ Advance(Head(queue).time)
    /\ metrics' = <<CalculateMetrics(config.simulation_time)>>
    /\ phase' = IF MetricsFault(metrics'[1]) THEN "failed" ELSE "halted"
    /\ queue' = Tail(queue)
    /\ UNCHANGED <<nflows, flowvars, resvars, counters, flowhist,
                   int_q_last, int_b_last, at_update, config, second_run>>

\* a failed process's event is processed: env.run raises what the process raised
Crash ==
    /\ Fire("crash")
    /\ Advance(Head(queue).time)
    /\ phase' = "failed"
    /\ queue' = Tail(queue)
    /\ UNCHANGED <<nflows, flowvars, resvars, counters, flowhist,
                   int_q_last, int_b_last, at_update, runvars>>

\* a second Simulation(config) of the same process, constructed and run after
\* the first: its env is the default argument's one Environment, whose clock
\* and queue are the first run's, so env.run raises and its new stations are
\* left as constructed
SecondRun ==
    /\ phase = "halted"
    /\ second_run = <<>>
    /\ RunFaults(now)
    /\ second_run' = <<[error |-> "ValueError", counters |-> FreshCounters]>>
    /\ queue' = Schedule(queue, Event(now, URGENT, "gen_init", 0, 0))
    /\ UNCHANGED <<config, metrics, now, phase, nflows, flowvars, resvars,
                   counters, history>>

Next ==
    \/ Run
    \/ GenStart
    \/ GenArrival
    \/ CustomerStart
    \/ QueueArrive
    \/ Grant
    \/ Complete
    \/ ReleaseDone
    \/ Route
    \/ CustomerEnd
    \/ Halt
    \/ Crash
    \/ SecondRun

Spec == Init /\ [][Next]_vars

\* ------------------------------------------ Queue Simulation/main.py
\* main.py's station: num_serviced is counted at the arrival, server_status
\* is never assigned by Queue.process, and update_stats ends by flipping it.
\* Customer, Simulation and the event loop are those of practice.py, with
\* the horizon written into Simulation.run.
Toggle(status) == IF status = 0 THEN 1 ELSE 0

\* Queue.process up to "yield request"
MainQueueArrive ==
    /\ Fire("queue_init")
    /\ LET t == Head(queue).time
           f == Head(queue).flow
           s == Head(queue).st
       IN  /\ Advance(t)
           /\ times_of_arrival' = AppendArrival(times_of_arrival, s, t)
           /\ times_of_arrival_debug' = AppendArrival(times_of_arrival_debug, s, t)
           /\ num_serviced' = [num_serviced EXCEPT ![s] = @ + 1]
           /\ num_in_queue' = [num_in_queue EXCEPT ![s] = @ + 1]
           /\ UpdateStats(s, t, server_status[s], num_in_queue'[s],
                          Len(times_of_arrival'[s]), "arrival")
           /\ server_status' = [server_status EXCEPT ![s] = Toggle(@)]
           /\ TriggerPut(s, t, users[s], Enqueue(put_queue[s], f), Tail(queue))
           /\ pc' = [pc EXCEPT ![f] = "request"]
           /\ arrived_at' = [arrived_at EXCEPT ![f] = t]
           /\ visited' = [visited EXCEPT ![f] = Append(@, s)]
    /\ UNCHANGED <<phase, nflows, stage, at, service_time, total_delay,
                   service_times, own_delay, runvars>>

\* Queue.process from the grant to "yield self.env.timeout(service_time)"
MainGrant ==
    /\ Fire("request")
    /\ LET t == Head(queue).time
           f == Head(queue).flow
           s == Head(queue).st
       IN  /\ Advance(t)
           /\ total_delay' = [total_delay EXCEPT ![s] = @ + t - Head(times_of_arrival[s])]
           /\ times_of_arrival' = [times_of_arrival EXCEPT ![s] = Tail(@)]
           /\ num_in_queue' = [num_in_queue EXCEPT ![s] = @ - 1]
           /\ UpdateStats(s, t, server_status[s], num_in_queue'[s],
                          Len(times_of_arrival'[s]), "grant")
           /\ server_status' = [server_status EXCEPT ![s] = Toggle(@)]
           /\ \E d \in ServiceSamples(t) :
                 /\ service_time' = [service_time EXCEPT ![f] = d]
                 /\ queue' = Schedule(Tail(queue),
                                      Event(TimeoutAt(t, d), NORMAL, "svc_timeout", f, s))
           /\ pc' = [pc EXCEPT ![f] = "service"]
           /\ own_delay' = [own_delay EXCEPT ![s] = @ + t - arrived_at[f]]
    /\ UNCHANGED <<phase, nflows, stage, at, resvars, num_serviced,
                   times_of_arrival_debug, service_times, arrived_at, visited,
                   runvars>>

\* Queue.process from the end of the service to its return
MainComplete ==
    /\ Fire("svc_timeout")
    /\ LET t == Head(queue).time
           f == Head(queue).flow
           s == Head(queue).st
       IN  /\ Advance(t)
           /\ service_times' = [service_times EXCEPT ![s] = Append(@, service_time[f])]
           /\ UpdateStats(s, t, server_status[s], num_in_queue[s],
                          Len(times_of_arrival[s]), "completion")
           /\ server_status' = [server_status EXCEPT ![s] = Toggle(@)]
           /\ users' = [users EXCEPT ![s] = @ \ {f}]
           /\ queue' = Schedule(Schedule(Tail(queue), Event(t, NORMAL, "release", 0, s)),
                                Event(t, NORMAL, "queue_done", f, s))
           /\ pc' = [pc EXCEPT ![f] = "returned"]
    /\ UNCHANGED <<phase, nflows, stage, at, service_time, put_queue, num_serviced,
                   num_in_queue, total_delay, times_of_arrival,
                   times_of_arrival_debug, flowhist, runvars>>

MainInit == Init /\ ConfigValid

MainNext ==
    \/ Run
    \/ GenStart
    \/ GenArrival
    \/ CustomerStart
    \/ MainQueueArrive
    \/ MainGrant
    \/ MainComplete
    \/ ReleaseDone
    \/ Route
    \/ CustomerEnd
    \/ Halt

MainSpec == MainInit /\ [][MainNext]_vars

\* ------------------------------------------------ runs the horizon does not cut
\* practice.py with a valid Config, every sampled service time ending before
\* the horizon; env.run steps for as long as an event is queued.
Uncut ==
    \A i \in 1..Len(queue) :
        queue[i].kind = "svc_timeout" => queue[i].time < config.simulation_time

LiveGrant == Grant /\ Uncut'

LiveInit == Init /\ ConfigValid

LiveNext ==
    \/ Run
    \/ GenStart
    \/ GenArrival
    \/ CustomerStart
    \/ QueueArrive
    \/ LiveGrant
    \/ Complete
    \/ ReleaseDone
    \/ Route
    \/ CustomerEnd
    \/ Halt

LiveSpec == LiveInit /\ [][LiveNext]_vars /\ WF_vars(LiveNext)

\* ---------------------------------------------------------------- claims
\* the next event is later than the clock: simulated time is about to advance
TimeAboutToAdvance ==
    /\ phase = "running"
    /\ queue # <<>>
    /\ Head(queue).time > now

Range(q) == {q[i] : i \in 1..Len(q)}

\* the flows past "yield request" and not yet out of the with block
InService(s) == {f \in Flows : at[f] = s /\ pc[f] = "service"}

\* the flows between their grant and their release
Holding(s) == users[s] \cup InService(s)

\* the flows whose timestamp is still in times_of_arrival, in grant order
WaitOrder(s) ==
    LET g == {f \in users[s] : pc[f] = "request"}
    IN  (IF g = {} THEN <<>> ELSE <<CHOOSE f \in g : TRUE>>) \o put_queue[s]

\* C1: at every station at most one flow is between its grant and its
\* release, and a flow in service is the one the resource lists as its user.
C1_MutualExclusion ==
    \A s \in Stations :
        /\ Cardinality(Holding(s)) <= 1
        /\ InService(s) \subseteq users[s]

C1_Witness ==
    \E s \in Stations :
        /\ InService(s) # {}
        /\ Len(put_queue[s]) >= 2

\* C2: the timestamps in times_of_arrival are, in order, the arrival times
\* of the flows still to be admitted in the order they will be granted, and
\* total_delay is the sum of each granted flow's own wait.
C2_FifoOwnDelay ==
    \A s \in Stations :
        /\ total_delay[s] = own_delay[s]
        /\ Len(times_of_arrival[s]) = Len(WaitOrder(s))
        /\ \A i \in 1..Len(WaitOrder(s)) :
              times_of_arrival[s][i] = arrived_at[WaitOrder(s)[i]]

C2_Witness ==
    \E s \in Stations :
        /\ own_delay[s] > 0
        /\ num_serviced[s] >= 2
        /\ put_queue[s] # <<>>
        /\ \E i, j \in 1..Len(times_of_arrival_debug[s]) :
              i < j /\ times_of_arrival_debug[s][i] = times_of_arrival_debug[s][j]

\* C3: a flow arrives at Station 1 and then at exactly one of Stations 2 and
\* 3; it holds or waits for at most one server at a time, and once it has
\* arrived at its second station it is out of Station 1, whose service it
\* has completed.
C3_OneRoute ==
    /\ \A f \in Flows :
          /\ visited[f] \in {<<>>, <<1>>, <<1, 2>>, <<1, 3>>}
          /\ Cardinality({s \in Stations :
                            f \in users[s] \cup Range(put_queue[s])}) <= 1
          /\ Len(visited[f]) = 2 => f \notin users[1] \cup Range(put_queue[1])
    /\ Cardinality({f \in Flows : Len(visited[f]) = 2}) <= Len(service_times[1])

C3_Witness ==
    /\ \E f \in Flows : visited[f] = <<1, 2>> /\ pc[f] = "service"
    /\ \E f \in Flows : visited[f] = <<1, 3>> /\ pc[f] = "service"
    /\ \E f \in Flows : visited[f] = <<1>> /\ pc[f] = "service"

\* C4: when simulated time is about to advance, and when the run has halted,
\* the services completed at Station 1 are as many as the arrivals at
\* Stations 2 and 3 together.
C4_Conservation ==
    (TimeAboutToAdvance \/ phase = "halted") =>
        Len(service_times[1]) =
            Len(times_of_arrival_debug[2]) + Len(times_of_arrival_debug[3])

C4_Witness ==
    /\ phase = "halted"
    /\ Len(service_times[1]) = 3
    /\ Len(times_of_arrival_debug[2]) >= 1
    /\ Len(times_of_arrival_debug[3]) >= 1

\* C5: num_serviced is the number of customers that have completed service
\* at the station.
C5_ServicedIsCompleted ==
    \A s \in Stations : num_serviced[s] = Len(service_times[s])

\* C6: when simulated time is about to advance, server_status is 1 at the
\* stations whose server is held and 0 at the others.
C6_StatusIsOccupancy ==
    TimeAboutToAdvance =>
        \A s \in Stations : (server_status[s] = 1) <=> (users[s] # {})

C6_Witness ==
    /\ TimeAboutToAdvance
    /\ server_status[1] = 1
    /\ num_serviced[1] >= 2
    /\ own_delay[1] > 0
    /\ \E s \in {2, 3} : server_status[s] = 0 /\ service_times[s] # <<>>

\* C7: when the run has halted, area_under_b is the time within the horizon
\* during which the station's server was held.
C7_BusyAreaAtHorizon ==
    phase = "halted" => \A s \in Stations : area_under_b[s] = busy_time[s]

\* C8: area_under_q and area_under_b never decrease, and area_under_b never
\* exceeds the horizon.
C8_AreasMonotoneBounded ==
    /\ [][\A s \in Stations :
             /\ area_under_q'[s] >= area_under_q[s]
             /\ area_under_b'[s] >= area_under_b[s]]_vars
    /\ [](\A s \in Stations : area_under_b[s] <= config.simulation_time)

C8_Witness ==
    \E s \in Stations :
        /\ area_under_b[s] >= 2
        /\ area_under_q[s] >= 2

\* C9: area_under_q and area_under_b are the integrals of num_in_queue and
\* server_status up to last_event_time, and neither quantity has changed
\* between last_event_time and the clock.
C9_IntegrationExact ==
    \A s \in Stations :
        /\ area_under_q[s] = int_q_last[s]
        /\ area_under_b[s] = int_b_last[s]
        /\ int_q[s] = area_under_q[s] + (now - last_event_time[s]) * num_in_queue[s]
        /\ int_b[s] = area_under_b[s] + (now - last_event_time[s]) * server_status[s]

C9_Witness ==
    \E s \in Stations :
        /\ area_under_q[s] > 0
        /\ area_under_b[s] > 0
        /\ num_in_queue[s] > 0
        /\ last_event_time[s] < now

\* C10: a step that changes a station counter happens before the horizon,
\* the halting step changes none, and after it no counter and no flow moves.
C10_HaltAtHorizon ==
    [][/\ counters' # counters => now' < config.simulation_time
       /\ phase' = "halted" => counters' = counters
       /\ phase = "halted" => UNCHANGED <<phase, flowvars, resvars>>]_vars

C10_Witness ==
    /\ phase = "halted"
    /\ \E f \in Flows : pc[f] = "service"
    /\ \E f \in Flows : pc[f] = "request"
    /\ \E s \in Stations : num_serviced[s] > 0 /\ area_under_b[s] > 0

\* the counters of the first run that a second run is compared on
RunCounters ==
    [num_serviced |-> num_serviced, total_delay |-> total_delay,
     service_times |-> service_times, area_under_b |-> area_under_b,
     area_under_q |-> area_under_q]

\* C11: a second Simulation run in the same process on the same samples ends
\* with the counters the first one ended with.
C11_SecondRunSameCounters ==
    second_run # <<>> => second_run[1].counters = RunCounters

\* C12: with simulation_time = 0 the run ends without a fault and every
\* measure of every station is reported as zero.
C12_ZeroHorizonReportsZero ==
    (config.simulation_time = 0 /\ phase # "constructed") =>
        /\ phase = "halted"
        /\ metrics # <<>>
        /\ \A s \in Stations :
              /\ IsZero(metrics[1].WQi[s])
              /\ IsZero(metrics[1].Wi[s])
              /\ IsZero(metrics[1].LQi[s])
              /\ IsZero(metrics[1].Li[s])
              /\ IsZero(metrics[1].rho[s])

\* C13: a configuration with a non-positive rate or horizon is rejected
\* before anything is registered with the scheduler and before any station
\* counter changes: the run has failed, or not started, with an empty queue.
C13_BadConfigRejectedFirst ==
    ~ConfigValid =>
        /\ phase \in {"constructed", "failed"}
        /\ queue = <<>>
        /\ counters = <<Zero, Zero, Zero, Empty, Empty, Empty, Zero, Zero, Zero, Zero>>

\* C14: once calculate_metrics has run, a station with num_serviced = 0 has
\* WQ = 0, Es = 0 and W = 0, and the run has not failed.
C14_NoServiceZeroAverages ==
    metrics # <<>> =>
        /\ phase = "halted"
        /\ \A s \in Stations :
              num_serviced[s] = 0 =>
                  /\ metrics[1].WQi[s] = ZeroValue
                  /\ metrics[1].Es[s] = ZeroValue
                  /\ IsZero(metrics[1].Wi[s])

C14_Witness ==
    /\ metrics # <<>>
    /\ num_serviced[2] = 0
    /\ times_of_arrival_debug[2] = <<>>
    /\ num_serviced[1] >= 2
    /\ num_serviced[3] >= 1
    /\ ~IsZero(metrics[1].WQi[1])

\* C16 as claimed: when simulated time is about to advance, num_in_queue
\* counts the customers waiting for the server plus the one holding it.
C16_QueuePlusInService ==
    TimeAboutToAdvance =>
        \A s \in Stations :
            num_in_queue[s] = Len(put_queue[s]) + Cardinality(users[s])

\* C16 as amended: when simulated time is about to advance, num_in_queue
\* counts the customers waiting for the server only.
C16_WaitingOnly ==
    TimeAboutToAdvance =>
        \A s \in Stations : num_in_queue[s] = Len(put_queue[s])

C16_Witness ==
    /\ TimeAboutToAdvance
    /\ \E s \in Stations : users[s] # {} /\ put_queue[s] # <<>>
    /\ \E s \in Stations : users[s] # {} /\ put_queue[s] = <<>>

\* C17 as claimed: between handlers and at every update_stats call,
\* num_in_queue is non-negative and is the length of times_of_arrival.
C17_QueueLenAtEveryCall ==
    /\ \A s \in Stations :
          /\ num_in_queue[s] >= 0
          /\ num_in_queue[s] = Len(times_of_arrival[s])
    /\ at_update.n >= 0
    /\ at_update.n = at_update.len

\* C17 as amended: the same between handlers and at the update_stats calls
\* of a grant and of a completion; at the call of an arrival the arriving
\* customer's timestamp is already on times_of_arrival, which is one longer.
C17_QueueLenAtSuspension ==
    /\ \A s \in Stations :
          /\ num_in_queue[s] >= 0
          /\ num_in_queue[s] = Len(times_of_arrival[s])
    /\ at_update.n >= 0
    /\ at_update.len = at_update.n + (IF at_update.call = "arrival" THEN 1 ELSE 0)

C17_Witness ==
    /\ at_update.call = "arrival"
    /\ at_update.n = 1
    /\ \E s \in Stations : num_in_queue[s] = 2 /\ users[s] # {}

\* one station's counters
StationCounters(s) ==
    <<num_serviced[s], num_in_queue[s], total_delay[s], times_of_arrival[s],
      times_of_arrival_debug[s], service_times[s], area_under_b[s],
      area_under_q[s], last_event_time[s], server_status[s]>>

StationStep ==
    /\ phase = "running"
    /\ queue # <<>>
    /\ Head(queue).kind \in {"queue_init", "request", "svc_timeout"}

\* C18: an arrival, grant or completion at one station leaves the counters
\* of the other stations as they were, and a station no flow has arrived at
\* has all its counters at their initial values.
C18_Frame ==
    /\ [][StationStep =>
             \A s \in Stations \ {Head(queue).st} :
                 StationCounters(s)' = StationCounters(s)]_vars
    /\ [](\A s \in Stations :
             (\A f \in Flows : s \notin Range(visited[f])) =>
                 StationCounters(s) = <<0, 0, 0, <<>>, <<>>, <<>>, 0, 0, 0, 0>>)

C18_Witness ==
    /\ phase = "halted"
    /\ \A f \in Flows : visited[f] = <<1, 3>>
    /\ num_serviced[3] = 3
    /\ StationCounters(2) = <<0, 0, 0, <<>>, <<>>, <<>>, 0, 0, 0, 0>>

C19_MainBusyArea ==
    \A s \in Stations :
        busy_time[s] =
            area_under_b[s]
                + (now - last_event_time[s]) * (IF users[s] # {} THEN 1 ELSE 0)

\* C15: in a run the horizon does not cut, no customer waits forever: from
\* some point on no flow is waiting for a server or holding one, every flow
\* that arrived at a station having returned from it; and when the run halts
\* every arrival at every station has been counted once in num_serviced and
\* has recorded one service duration.
C15_EveryArrivalServed ==
    /\ <>[](\A f \in Flows : pc[f] \notin {"request", "service"})
    /\ [](phase = "halted" =>
             \A s \in Stations :
                 /\ num_serviced[s] = Len(times_of_arrival_debug[s])
                 /\ Len(service_times[s]) = Len(times_of_arrival_debug[s]))

C15_Witness ==
    /\ phase = "halted"
    /\ \A f \in Flows : stage[f] = 3
    /\ \E s \in Stations : own_delay[s] >= 2

====
